---- MODULE Spec2Model ----
(***************************************************************************)
(* A model of src/details.py: PixelPlaneFormat and PixelFormat, the        *)
(* descriptors of pixel-buffer layouts, with the two pieces of class-level *)
(* state (the registry _named_formats and the cache _bpp).                 *)
(*                                                                         *)
(* Python values are tagged tuples, so that type() is the tag:             *)
(*   <<"str", chars>>      a str, chars a sequence of 1-character strings  *)
(*   <<"lit", v>>          a str holding the literal text (repr) of v      *)
(*   <<"int", n>>          an int                                          *)
(*   <<"float", n, d>>     a float that is not a whole number, n/d reduced *)
(*   <<"tuple", seq>>      a plain tuple                                   *)
(*   <<"list", seq>>       a list                                          *)
(*   <<"plane", n, c, s>>  a PixelPlaneFormat instance                     *)
(*   <<"format", seq>>     a PixelFormat instance                          *)
(*   <<"none">>            None                                            *)
(*   <<"err", kind>>       the call raised the exception `kind`            *)
(* The code is Python 2: / on ints is floor division, map returns a list   *)
(* and dict iteration follows the hash table's slots.                      *)
(***************************************************************************)
EXTENDS Integers, Sequences, FiniteSets, TLC

VARIABLES named_formats, bpp, held, op, inp, out

vars == <<named_formats, bpp, held, op, inp, out>>

(***************************************************************************)
(* Bounds of the model.                                                    *)
(***************************************************************************)
MaxTokenLen == 4
MaxPairs == 3
MaxCache == 2
MaxDigit == 4
MaxChannels == 2
MaxFragments == 2

(***************************************************************************)
(* Python values.                                                          *)
(***************************************************************************)
S(chars) == <<"str", chars>>
Lit(v) == <<"lit", v>>
I(n) == <<"int", n>>
T(seq) == <<"tuple", seq>>
L(seq) == <<"list", seq>>
None == <<"none">>
Err(kind) == <<"err", kind>>
Plane(n, channels, subsampling) == <<"plane", n, channels, subsampling>>
Format(planes) == <<"format", planes>>

Tag(v) == v[1]
IsErr(v) == Tag(v) = "err"
IsNone(v) == Tag(v) = "none"
IsStr(v) == Tag(v) \in {"str", "lit"}
IsInt(v) == Tag(v) = "int"
IsNumber(v) == Tag(v) \in {"int", "float"}
IsTuple(v) == Tag(v) = "tuple"
IsList(v) == Tag(v) = "list"
IsPlane(v) == Tag(v) = "plane"
IsFormat(v) == Tag(v) = "format"
\* the elements of a tuple, a list, a PixelFormat, or a PixelPlaneFormat
Items(v) == IF IsPlane(v) THEN <<v[2], v[3], v[4]>> ELSE v[2]
\* isinstance(v, tuple): tuple and its subclasses
IsTupleLike(v) == Tag(v) \in {"tuple", "plane", "format"}

MalformedPlaneFormat == Err("MalformedPlaneFormat")
TypeError == Err("TypeError")
ZeroDivisionError == Err("ZeroDivisionError")
IndexError == Err("IndexError")
SyntaxError == Err("SyntaxError")

\* Python's == on the values above: a namedtuple or a tuple subclass equals
\* the plain tuple of its items.
RECURSIVE Untag(_)
Untag(v) ==
    IF IsTupleLike(v)
    THEN LET xs == Items(v) IN T([i \in 1..Len(xs) |-> Untag(xs[i])])
    ELSE IF IsList(v)
    THEN L([i \in 1..Len(v[2]) |-> Untag(v[2][i])])
    ELSE v

PyEq(a, b) == Untag(a) = Untag(b)

(***************************************************************************)
(* Characters, and the conversions between digit strings and ints.         *)
(***************************************************************************)
LowerCase == <<"a","b","c","d","e","f","g","h","i","j","k","l","m",
               "n","o","p","q","r","s","t","u","v","w","x","y","z">>
UpperCase == <<"A","B","C","D","E","F","G","H","I","J","K","L","M",
               "N","O","P","Q","R","S","T","U","V","W","X","Y","Z">>
DigitChars == <<"0","1","2","3","4","5","6","7","8","9">>

IndexIn(seq, c) == CHOOSE i \in 1..Len(seq) : seq[i] = c
IsLower(c) == \E i \in 1..Len(LowerCase) : LowerCase[i] = c
IsUpper(c) == \E i \in 1..Len(UpperCase) : UpperCase[i] = c
IsLetter(c) == IsLower(c) \/ IsUpper(c)
IsDigit(c) == \E i \in 1..Len(DigitChars) : DigitChars[i] = c
ToLower(c) == IF IsUpper(c) THEN LowerCase[IndexIn(UpperCase, c)] ELSE c
\* ord() of a letter
Ord(c) == IF IsLower(c) THEN 96 + IndexIn(LowerCase, c) ELSE 64 + IndexIn(UpperCase, c)
DigitVal(c) == IndexIn(DigitChars, c) - 1

\* int(width) of a run of digits
RECURSIVE StrToInt(_)
StrToInt(chars) ==
    IF chars = <<>> THEN 0
    ELSE 10 * StrToInt(SubSeq(chars, 1, Len(chars) - 1)) + DigitVal(chars[Len(chars)])

\* "%d" % n for n >= 0
RECURSIVE IntToStr(_)
IntToStr(n) ==
    IF n < 10 THEN <<DigitChars[n + 1]>>
    ELSE IntToStr(n \div 10) \o <<DigitChars[(n % 10) + 1]>>

RECURSIVE Concat(_)
Concat(seqs) == IF seqs = <<>> THEN <<>> ELSE Head(seqs) \o Concat(Tail(seqs))

(***************************************************************************)
(* dict: CPython 2 keeps a dict of up to five keys in a table of 8 slots,  *)
(* probes from hash & 7 and iterates over the slots in order.  The hash of *)
(* a one-character str c is (1000003 * (ord(c) << 7)) ^ ord(c) ^ 1.        *)
(***************************************************************************)
DictSlots == 8
HashHigh(c) == 1000003 * Ord(c)
HashLow(c) == IF Ord(c) % 2 = 0 THEN Ord(c) + 1 ELSE Ord(c) - 1

RECURSIVE Pow2(_)
Pow2(n) == IF n = 0 THEN 1 ELSE 2 * Pow2(n - 1)

\* (hash >> 5*j) & 7
Perturb(c, j) ==
    IF j = 0 THEN HashLow(c) % DictSlots
    ELSE IF j = 1 THEN (4 * (HashHigh(c) % 2) + (HashLow(c) \div 32)) % DictSlots
    ELSE IF 5 * j - 7 > 30 THEN 0
    ELSE (HashHigh(c) \div Pow2(5 * j - 7)) % DictSlots

RECURSIVE Probe(_, _, _, _)
Probe(table, c, i, j) ==
    IF table[i] = "" THEN i
    ELSE Probe(table, c, (5 * i + 1 + Perturb(c, j)) % DictSlots, j + 1)

RECURSIVE DictTable(_)
DictTable(keys) ==
    IF keys = <<>> THEN [i \in 0..(DictSlots - 1) |-> ""]
    ELSE LET t == DictTable(SubSeq(keys, 1, Len(keys) - 1))
             c == keys[Len(keys)]
         IN [t EXCEPT ![Probe(t, c, HashLow(c) % DictSlots, 0)] = c]

RECURSIVE SlotKeys(_, _)
SlotKeys(table, i) ==
    IF i = DictSlots THEN <<>>
    ELSE (IF table[i] = "" THEN <<>> ELSE <<table[i]>>) \o SlotKeys(table, i + 1)

\* d.keys() of a dict whose distinct keys were inserted in the order `keys`
DictKeys(keys) == SlotKeys(DictTable(keys), 0)

(***************************************************************************)
(* PixelPlaneFormat._parse_layout                                          *)
(***************************************************************************)
RECURSIVE DigitRunEnd(_, _)
\* the last index of the run of digits of s that starts at i
DigitRunEnd(s, i) ==
    IF i + 1 <= Len(s) /\ IsDigit(s[i + 1]) THEN DigitRunEnd(s, i + 1) ELSE i

RECURSIVE LetterRunEnd(_, _)
LetterRunEnd(s, i) ==
    IF i + 1 <= Len(s) /\ IsLetter(s[i + 1]) THEN LetterRunEnd(s, i + 1) ELSE i

\* _layput_pattern1.match(s): (?:[a-zA-Z]\d+)+ at the start of s
MatchPattern1(s) == Len(s) >= 2 /\ IsLetter(s[1]) /\ IsDigit(s[2])

RECURSIVE FindAll(_, _)
\* _find_pattern1.findall(s): every ([a-zA-Z])(\d+) of s from index i on
FindAll(s, i) ==
    IF i > Len(s) THEN <<>>
    ELSE IF IsLetter(s[i]) /\ i + 1 <= Len(s) /\ IsDigit(s[i + 1])
    THEN LET e == DigitRunEnd(s, i + 1)
         IN <<<<s[i], SubSeq(s, i + 1, e)>>>> \o FindAll(s, e + 1)
    ELSE FindAll(s, i + 1)

\* _layput_pattern2.match(s): ([a-zA-Z]+)(\d+) at the start of s
MatchPattern2(s) ==
    /\ Len(s) >= 2
    /\ IsLetter(s[1])
    /\ LetterRunEnd(s, 1) + 1 <= Len(s)
    /\ IsDigit(s[LetterRunEnd(s, 1) + 1])

Pattern2Names(s) == SubSeq(s, 1, LetterRunEnd(s, 1))
Pattern2Widths(s) ==
    SubSeq(s, LetterRunEnd(s, 1) + 1, DigitRunEnd(s, LetterRunEnd(s, 1) + 1))

RECURSIVE LastFragment(_, _, _)
\* the loop of lines 150-159 with line 157 assigning instead of appending: a
\* repeated name keeps its last fragment only
LastFragment(channels, name, pos) ==
    IF channels = <<>> THEN <<>>
    ELSE IF LastFragment(Tail(channels), name, pos + StrToInt(channels[1][2])) # <<>>
    THEN LastFragment(Tail(channels), name, pos + StrToInt(channels[1][2]))
    ELSE IF channels[1][1] = name
    THEN <<T(<<I(pos), I(StrToInt(channels[1][2]))>>)>>
    ELSE <<>>

RECURSIVE LayoutFragments(_, _, _)
\* the loop of lines 150-159 for one name: its (pos, width) in order
LayoutFragments(channels, name, pos) ==
    IF channels = <<>> THEN <<>>
    ELSE LET width == StrToInt(channels[1][2])
         IN (IF channels[1][1] = name THEN <<T(<<I(pos), I(width)>>)>> ELSE <<>>)
            \o LayoutFragments(Tail(channels), name, pos + width)

RECURSIVE FirstOccurrences(_, _)
\* the keys of d in the order of their insertion
FirstOccurrences(channels, seen) ==
    IF channels = <<>> THEN <<>>
    ELSE IF channels[1][1] \in seen THEN FirstOccurrences(Tail(channels), seen)
    ELSE <<channels[1][1]>> \o FirstOccurrences(Tail(channels), seen \cup {channels[1][1]})

\* tuple(d.items()) for the keys of d in the order `keys`
ItemsInOrder(channels, keys) ==
    T([i \in 1..Len(keys) |->
        T(<<S(<<keys[i]>>), T(LayoutFragments(channels, keys[i], 0))>>)])

\* lines 150-161: the dict of fragments and tuple(d.items())
LayoutItems(channels) == ItemsInOrder(channels, DictKeys(FirstOccurrences(channels, {})))

_parse_layout(s) ==
    IF IsTuple(s) THEN s
    ELSE IF ~IsStr(s) THEN None
    ELSE IF Tag(s) = "lit" THEN MalformedPlaneFormat
    ELSE IF MatchPattern1(s[2]) THEN LayoutItems(FindAll(s[2], 1))
    ELSE IF MatchPattern2(s[2]) /\ Len(Pattern2Names(s[2])) = Len(Pattern2Widths(s[2]))
    THEN LayoutItems([i \in 1..Len(Pattern2Names(s[2])) |->
                        <<Pattern2Names(s[2])[i], <<Pattern2Widths(s[2])[i]>>>>])
    ELSE MalformedPlaneFormat

(***************************************************************************)
(* Ordering of Python tuples of ints and of strs, for list.sort().          *)
(***************************************************************************)
RECURSIVE LexLess(_, _)
LexLess(a, b) ==
    IF a = <<>> THEN b # <<>>
    ELSE IF b = <<>> THEN FALSE
    ELSE IF a[1] # b[1] THEN a[1] < b[1]
    ELSE LexLess(Tail(a), Tail(b))

\* a tuple of (start, width) fragments as the ints it is compared by
FragKey(pos) == Concat([i \in 1..Len(pos[2]) |-> <<pos[2][i][2][1][2], pos[2][i][2][2][2]>>])

\* (pos, name) < (pos', name') for sort entries <<key of pos, name chars, payload>>
EntryLess(a, b) == LexLess(a[1], b[1]) \/ (a[1] = b[1] /\ LexLess([i \in 1..Len(a[2]) |-> Ord(a[2][i])], [i \in 1..Len(b[2]) |-> Ord(b[2][i])]))

RECURSIVE InsertSorted(_, _)
InsertSorted(sorted, e) ==
    IF sorted = <<>> THEN <<e>>
    ELSE IF EntryLess(e, sorted[1]) THEN <<e>> \o sorted
    ELSE <<sorted[1]>> \o InsertSorted(Tail(sorted), e)

RECURSIVE SortEntries(_)
SortEntries(entries) ==
    IF entries = <<>> THEN <<>>
    ELSE InsertSorted(SortEntries(SubSeq(entries, 1, Len(entries) - 1)), entries[Len(entries)])

(***************************************************************************)
(* PixelPlaneFormat                                                        *)
(***************************************************************************)
PlaneSpan(p) == p[2]
PlaneChannels(p) == p[3]
PlaneSubsampling(p) == p[4]
\* a channel map entry (name, pos) of a parsed layout
ChName(e) == e[2][1][2]
ChPos(e) == e[2][2]
FragStart(f) == f[2][1][2]
FragWidth(f) == f[2][2][2]
FullResolution == T(<<I(1), I(1)>>)

\* lines 108-121: the description as (n, layout, subsampling), or None
PlaneShape(x) ==
    IF IsStr(x) THEN T(<<I(1), x, FullResolution>>)
    ELSE IF IsTuple(x) /\ Len(x[2]) = 3 THEN x
    ELSE IF IsTuple(x) /\ Len(x[2]) = 2
    THEN IF IsInt(x[2][1]) /\ (IsStr(x[2][2]) \/ IsTuple(x[2][2]))
         THEN T(x[2] \o <<FullResolution>>)
         ELSE IF (IsStr(x[2][1]) \/ IsTuple(x[2][1])) /\ IsTuple(x[2][2])
         THEN IF /\ Len(x[2][2][2]) = 2
                 /\ IsNumber(x[2][2][2][1])
                 /\ IsNumber(x[2][2][2][2])
              THEN T(<<I(1)>> \o x[2])
              ELSE None
         ELSE None
    ELSE None

\* lines 128-130
PlaneWithChannels(t, channels) ==
    IF IsErr(channels) THEN channels
    ELSE IF ~IsNone(channels) THEN T(<<t[2][1], channels, t[2][3]>>)
    ELSE None

\* lines 123-130
PlaneOfShape(t) ==
    IF IsNone(t) THEN None
    ELSE IF ~IsInt(t[2][1]) \/ ~IsTuple(t[2][3]) THEN None
    ELSE IF Len(t[2][3][2]) # 2 THEN None
    ELSE PlaneWithChannels(t, _parse_layout(t[2][2]))

_parse_plane(x) == IF IsPlane(x) THEN x ELSE PlaneOfShape(PlaneShape(x))

\* "invalid plane descrition: %s" % plane_description: a tuple on the right of
\* % is the argument list, and must then hold exactly one argument
FormatMessage(plane_description) ==
    IF IsTupleLike(plane_description) /\ Len(Items(plane_description)) # 1
    THEN TypeError
    ELSE MalformedPlaneFormat

\* lines 37-39
MakePlane(plane_description, t) ==
    IF IsErr(t) THEN t
    ELSE IF IsNone(t) THEN FormatMessage(plane_description)
    ELSE Plane(Items(t)[1], Items(t)[2], Items(t)[3])

from_description(plane_description) ==
    MakePlane(plane_description, _parse_plane(plane_description))

RECURSIVE SumWidths(_)
SumWidths(fractions) ==
    IF fractions = <<>> THEN 0 ELSE FragWidth(fractions[1]) + SumWidths(Tail(fractions))

RECURSIVE SumChannels(_)
SumChannels(layout) ==
    IF layout = <<>> THEN 0
    ELSE SumWidths(ChPos(layout[1])[2]) + SumChannels(Tail(layout))

RECURSIVE FirstWidths(_)
FirstWidths(layout) ==
    IF layout = <<>> THEN 0
    ELSE FragWidth(ChPos(layout[1])[2][1]) + FirstWidths(Tail(layout))

\* bits_per_sample with the inner loop of lines 47-48 stopped after the first
\* fragment of each channel
FirstFragmentBits(p) == FirstWidths(PlaneChannels(p)[2])

\* lines 42-49
bits_per_sample(p) == SumChannels(PlaneChannels(p)[2])

\* the entries [(pos, name) for name, pos in channels], sorted
SortedChannels(channels) ==
    SortEntries([i \in 1..Len(channels[2]) |->
        <<FragKey(ChPos(channels[2][i])), ChName(channels[2][i]), ChPos(channels[2][i])>>])

RECURSIVE PlaneNameLoop(_, _, _)
\* lines 87-97: None (a break), an IndexError, or the chars of result
PlaneNameLoop(sorted_channels, i, result) ==
    IF sorted_channels = <<>> THEN S(result)
    ELSE LET pos == sorted_channels[1][3][2]
             name == sorted_channels[1][2]
         IN IF Len(pos) > 1 THEN None
            ELSE IF Len(pos) = 0 THEN IndexError
            ELSE IF FragStart(pos[1]) # i THEN None
            ELSE PlaneNameLoop(Tail(sorted_channels), i + FragWidth(pos[1]),
                               result \o name \o IntToStr(FragWidth(pos[1])))

\* lines 98-100
PlaneNameResult(result) ==
    IF IsErr(result) THEN result
    ELSE IF IsNone(result) \/ result = S(<<>>) THEN None
    ELSE result

PlaneName(p) ==
    IF PlaneSpan(p) = I(1) /\ PlaneSubsampling(p) = FullResolution
    THEN PlaneNameResult(PlaneNameLoop(SortedChannels(PlaneChannels(p)), 0, <<>>))
    ELSE None

\* the value that one entry of chs in __repr__ is the literal text of
ReprChannel(e) ==
    IF Len(ChPos(e)[2]) = 1 /\ FragStart(ChPos(e)[2][1]) = 0
    THEN S(ChName(e) \o IntToStr(FragWidth(ChPos(e)[2][1])))
    ELSE T(<<S(ChName(e)), ChPos(e)>>)

\* lines 55-75: the value of the text '(%s)' % s, which around one item is
\* that item and around several a tuple of them
ReprParts(chs, span, subsampling) ==
    IF Len(chs) = 0 /\ subsampling # <<>> THEN SyntaxError
    ELSE IF Len(chs) = 0 THEN T(span)
    ELSE IF Len(span) + Len(subsampling) = 0
    THEN (IF Len(chs) > 1 THEN T(chs) ELSE chs[1])
    ELSE T(span \o (IF Len(chs) > 1 THEN <<T(chs)>> ELSE chs) \o subsampling)

ReprOfUnnamed(p) ==
    ReprParts([i \in 1..Len(PlaneChannels(p)[2]) |-> ReprChannel(PlaneChannels(p)[2][i])],
              IF PlaneSpan(p) # I(1) THEN <<PlaneSpan(p)>> ELSE <<>>,
              IF PlaneSubsampling(p) # FullResolution THEN <<PlaneSubsampling(p)>> ELSE <<>>)

\* lines 52-54
ReprNamed(p, name) == IF IsNone(name) THEN ReprOfUnnamed(p) ELSE name

\* PixelPlaneFormat.__repr__, as the value its text is the literal of
ReprPlane(p) == ReprNamed(p, PlaneName(p))

(***************************************************************************)
(* Numbers: an int or float is the fraction <<numerator, denominator>> it  *)
(* denotes.                                                                *)
(***************************************************************************)
RECURSIVE Gcd(_, _)
Gcd(a, b) == IF b = 0 THEN a ELSE Gcd(b, a % b)

Reduce(q) ==
    LET g == Gcd(q[1], q[2])
    IN IF g = 0 THEN q ELSE <<q[1] \div g, q[2] \div g>>
QOf(v) == IF IsInt(v) THEN <<v[2], 1>> ELSE <<v[2], v[3]>>
QAdd(a, b) == Reduce(<<a[1] * b[2] + b[1] * a[2], a[2] * b[2]>>)
QMul(a, b) == Reduce(<<a[1] * b[1], a[2] * b[2]>>)
\* a / b for b > 0
QDiv(a, b) == Reduce(<<a[1] * b[2], a[2] * b[1]>>)
QLess(a, b) == a[1] * b[2] < b[1] * a[2]
\* the float of a fraction
Float(q) == <<"float", Reduce(q)[1], Reduce(q)[2]>>
\* the int or float of a fraction, an int when it is whole (line 424)
NumberOf(q) == IF Reduce(q)[2] = 1 THEN I(Reduce(q)[1]) ELSE <<"float", Reduce(q)[1], Reduce(q)[2]>>

(***************************************************************************)
(* PixelFormat: the private parsers                                        *)
(***************************************************************************)
\* _yuv_pattern.match(name): yuv\s?(\d):?(\d):?(\d)p? at the start, re.I;
\* the three digits, or <<>> when the pattern does not match
YuvGroups(name) ==
    IF Len(name) < 6 THEN <<>>
    ELSE IF <<ToLower(name[1]), ToLower(name[2]), ToLower(name[3])>> # <<"y", "u", "v">>
    THEN <<>>
    ELSE LET i1 == IF name[4] = " " THEN 5 ELSE 4
             i2 == IF i1 + 1 <= Len(name) /\ name[i1 + 1] = ":" THEN i1 + 2 ELSE i1 + 1
             i3 == IF i2 + 1 <= Len(name) /\ name[i2 + 1] = ":" THEN i2 + 2 ELSE i2 + 1
         IN IF /\ i3 <= Len(name)
               /\ IsDigit(name[i1]) /\ IsDigit(name[i2]) /\ IsDigit(name[i3])
            THEN <<DigitVal(name[i1]), DigitVal(name[i2]), DigitVal(name[i3])>>
            ELSE <<>>

_parse_yuv_name(name) ==
    LET m == YuvGroups(name)
    IN IF m = <<>> THEN None
       ELSE LET luma_width == m[1]
                chroma_samples_row1 == m[2]
                chroma_samples_row2 == m[3]
            IN IF chroma_samples_row1 = 0 THEN ZeroDivisionError
               ELSE IF chroma_samples_row2 # 0 /\ chroma_samples_row2 # chroma_samples_row1
               \* raise NotImplemented(...): NotImplemented is not callable
               THEN TypeError
               ELSE LET subsampling ==
                            T(<<NumberOf(<<luma_width, chroma_samples_row1>>),
                                IF chroma_samples_row2 = 0 THEN I(2) ELSE I(1)>>)
                    IN T(<<S(<<"y", "8">>),
                           T(<<S(<<"u", "8">>), subsampling>>),
                           T(<<S(<<"v", "8">>), subsampling>>)>>)

\* the planes so far with the next one, or the exception of either
ConsPlane(t, rest) ==
    IF IsErr(t) THEN t
    ELSE IF IsErr(rest) THEN rest
    ELSE T(<<t>> \o rest[2])

RECURSIVE ParseEach(_)
\* lines 436-440: the planes of the elements, up to the first that raises
ParseEach(xs) ==
    IF xs = <<>> THEN T(<<>>)
    ELSE ConsPlane(from_description(xs[1]), ParseEach(Tail(xs)))

\* lines 431-440, given the outcome of the first try
PlanesAfterTry(one_or_more_planes, single) ==
    IF ~IsErr(single) THEN T(<<single>>)
    ELSE IF single # MalformedPlaneFormat THEN single
    ELSE ParseEach(Items(one_or_more_planes))

_parse_planes(one_or_more_planes) ==
    PlanesAfterTry(one_or_more_planes, from_description(one_or_more_planes))

\* lines 328-332: (pos, name) of every fragment of every channel, sorted
SortedFragments(channels) ==
    SortEntries(Concat([i \in 1..Len(channels[2]) |->
        [j \in 1..Len(ChPos(channels[2][i])[2]) |->
            <<<<FragStart(ChPos(channels[2][i])[2][j]), FragWidth(ChPos(channels[2][i])[2][j])>>,
              ChName(channels[2][i]),
              ChPos(channels[2][i])[2][j]>>]]))

\* lines 334-345: one plane per sorted fragment
PlanePerFragment(n, subsampling, sorted_channels) ==
    T([i \in 1..Len(sorted_channels) |->
        Plane(n,
              T(<<T(<<S(sorted_channels[i][2]),
                      T(<<T(<<I(0), I(FragWidth(sorted_channels[i][3]))>>)>>)>>)>>),
              subsampling)])

\* the fragments in the order of the channel map: lines 328-330 without the
\* sort of line 332
UnsortedFragments(channels) ==
    Concat([i \in 1..Len(channels[2]) |->
        [j \in 1..Len(ChPos(channels[2][i])[2]) |->
            <<<<FragStart(ChPos(channels[2][i])[2][j]), FragWidth(ChPos(channels[2][i])[2][j])>>,
              ChName(channels[2][i]),
              ChPos(channels[2][i])[2][j]>>]])

\* _make_planar without the sort
MakePlanarUnsorted(t) ==
    IF Len(t[2]) # 1 THEN Err("AssertionError")
    ELSE PlanePerFragment(PlaneSpan(t[2][1]), PlaneSubsampling(t[2][1]),
                          UnsortedFragments(PlaneChannels(t[2][1])))

\* lines 318-345
_make_planar(t) ==
    IF Len(t[2]) # 1 THEN Err("AssertionError")
    ELSE PlanePerFragment(PlaneSpan(t[2][1]), PlaneSubsampling(t[2][1]),
                          SortedFragments(PlaneChannels(t[2][1])))

\* line 316: a tuple of the one plane
OnePlane(t) == IF IsErr(t) THEN t ELSE T(<<t>>)

\* lines 313-316
PlanarIfAsked(result, make_planar) ==
    IF IsErr(result) THEN result
    ELSE IF make_planar THEN _make_planar(result)
    ELSE result

\* lines 309-316
ParseDescribed(description, make_planar) ==
    PlanarIfAsked(IF IsTuple(description) \/ IsList(description)
                  THEN _parse_planes(description)
                  ELSE OnePlane(from_description(description)),
                  make_planar)

\* eval(description) of a str that starts with "(" and ends with ")": the
\* only such strs of the model are the literal texts
Eval(description) == IF Tag(description) = "lit" THEN description[2] ELSE SyntaxError

StartsAndEndsWithParens(description) ==
    \/ Tag(description) = "lit"
    \/ description[2][1] = "(" /\ description[2][Len(description[2])] = ")"

\* lines 293-308 of a str: what is left to parse, and whether as planar
Rewritten(description, make_planar) == <<"rewritten", description, make_planar>>

EvalOrKeep(description, result) ==
    IF IsErr(result) THEN result
    ELSE IF IsTuple(result) THEN Rewritten(result, FALSE)
    ELSE Rewritten(description, FALSE)

RewriteStr(description, yuv_format) ==
    IF IsErr(yuv_format) THEN yuv_format
    ELSE IF ~IsNone(yuv_format) THEN Rewritten(yuv_format, FALSE)
    ELSE IF description = S(<<>>) THEN IndexError
    ELSE IF StartsAndEndsWithParens(description)
    THEN EvalOrKeep(description, Eval(description))
    ELSE IF ToLower(description[2][Len(description[2])]) = "p"
    THEN Rewritten(S(SubSeq(description[2], 1, Len(description[2]) - 1)), TRUE)
    ELSE Rewritten(description, FALSE)

Rewrite(description) ==
    IF ~IsStr(description) THEN Rewritten(description, FALSE)
    ELSE RewriteStr(description,
                    IF Tag(description) = "lit" THEN None
                    ELSE _parse_yuv_name(description[2]))

ParseRewritten(r) == IF IsErr(r) THEN r ELSE ParseDescribed(r[2], r[3])

_parse_description(description) == ParseRewritten(Rewrite(description))

(***************************************************************************)
(* PixelFormat: construction, name and bits_per_pixel                      *)
(***************************************************************************)
\* _named_formats as the class body leaves it (lines 172-222)
InitialNamedFormats ==
    (<<"r","g","b">> :> S(<<"r","8","g","8","b","8">>))
    @@ (<<"x","r","g","b">> :> S(<<"x","8","r","8","g","8","b","8">>))
    @@ (<<"r","g","b","a">> :> S(<<"r","8","g","8","b","8","a","8">>))
    @@ (<<"g","r","a","y","8">> :> S(<<"y","8">>))
    @@ (<<"m","o","n","o","w","h","i","t","e">> :> S(<<"k","1">>))
    @@ (<<"m","o","n","o","b","l","a","c","k">> :> S(<<"y","1">>))
    @@ (<<"p","a","l","8">> :> S(<<"i","8">>))
    @@ (<<"u","y","v","y","4","2","2">> :> T(<<I(2), S(<<"u","8","y","8","v","8","y","8">>)>>))
    @@ (<<"y","u","y","v","4","2","2">> :> T(<<I(2), S(<<"y","8","u","8","y","8","v","8">>)>>))
    @@ (<<"u","y","y","v","y","y","4","1","1">> :>
            T(<<I(4), S(<<"u","8","y","8","y","8","v","8","y","8","y","8">>)>>))
    @@ (<<"y","u","v","a","4","2","0","p">> :>
            T(<<S(<<"y","8">>),
                T(<<S(<<"u","8">>), T(<<I(2), I(2)>>)>>),
                T(<<S(<<"v","8">>), T(<<I(2), I(2)>>)>>),
                S(<<"a","8">>)>>))
    @@ (<<"n","v","1","2">> :>
            T(<<S(<<"y","8">>), T(<<S(<<"u","8","v","8">>), T(<<I(2), I(2)>>)>>)>>))
    @@ (<<"n","v","2","1">> :>
            T(<<S(<<"y","8">>), T(<<S(<<"v","8","u","8">>), T(<<I(2), I(2)>>)>>)>>))

\* lines 242-243 without the assignment of line 245
RegisteredNotStored(key, formats, planes) ==
    [result |-> IF IsErr(planes) THEN planes ELSE Format(planes[2]), formats |-> formats]

\* lines 231-236: the registered name's planes, stored back normalized
Registered(key, formats, planes) ==
    IF IsErr(planes) THEN [result |-> planes, formats |-> formats]
    ELSE [result |-> Format(planes[2]), formats |-> [formats EXCEPT ![key] = planes]]

\* lines 238-249
Constructed(formats, planes) ==
    [result |-> IF IsErr(planes) THEN planes ELSE Format(planes[2]), formats |-> formats]

\* PixelFormat(description) with the registry `formats`: the instance or the
\* exception, and the registry afterwards
PixelFormat(description, formats) ==
    IF Tag(description) = "str" /\ description[2] \in DOMAIN formats
    THEN Registered(description[2], formats, _parse_description(formats[description[2]]))
    ELSE Constructed(formats, _parse_description(description))

\* name.lower() in "yuv"
InYuv(name) ==
    [i \in 1..Len(name) |-> ToLower(name[i])] \in
        {<<>>, <<"y">>, <<"u">>, <<"v">>, <<"y","u">>, <<"u","v">>, <<"y","u","v">>}

\* lines 355-371 for one plane: can it be a component of a yuv name
IsYuvComponent(plane) ==
    /\ Len(PlaneChannels(plane)[2]) = 1
    /\ Len(ChPos(PlaneChannels(plane)[2][1])[2]) = 1
    /\ FragStart(ChPos(PlaneChannels(plane)[2][1])[2][1]) = 0
    /\ FragWidth(ChPos(PlaneChannels(plane)[2][1])[2][1]) = 8
    /\ InYuv(ChName(PlaneChannels(plane)[2][1]))

ComponentName(plane) ==
    LET name == ChName(PlaneChannels(plane)[2][1])
    IN [i \in 1..Len(name) |-> ToLower(name[i])]

\* max(numbers) of ints and floats
RECURSIVE MaxNumber(_)
MaxNumber(numbers) ==
    IF Len(numbers) = 1 THEN numbers[1]
    ELSE LET m == MaxNumber(Tail(numbers))
         IN IF QLess(QOf(numbers[1]), QOf(m)) THEN m ELSE numbers[1]

\* the threshold of line 402
YuvScaleBelow == 3

\* x*4/m: floor division of ints, true division with a float
Scaled(x, m) ==
    IF IsInt(x) /\ IsInt(m) THEN I((x[2] * 4) \div m[2])
    ELSE NumberOf(QDiv(QMul(QOf(x), <<4, 1>>), QOf(m)))

\* "%d" % x
FormatD(x) == IF IsInt(x) THEN IntToStr(x[2]) ELSE IntToStr(x[2] \div x[3])

\* lines 397-405: the digits of the name
YuvDigits(numbers, m) ==
    IF QLess(QOf(m), <<YuvScaleBelow, 1>>)
    THEN [i \in 1..3 |-> FormatD(Scaled(numbers[i], m))]
    ELSE [i \in 1..3 |-> FormatD(numbers[i])]

\* lines 391-396
YuvNumbers(chroma_subsampling) ==
    <<chroma_subsampling[2][1], I(1), IF chroma_subsampling[2][2] = I(1) THEN I(1) ELSE I(0)>>

\* c[name] of lines 373-377: the subsampling of the last plane named `name`
Component(t, names, name) ==
    PlaneSubsampling(t[2][CHOOSE i \in 1..Len(t[2]) :
        /\ names[i] = name
        /\ \A j \in (i + 1)..Len(t[2]) : names[j] # name])

\* lines 373-405
YuvNameOf(t, names) ==
    IF Cardinality({names[i] : i \in 1..Len(names)}) # Len(names) THEN None
    ELSE IF Len(names) # 3 THEN None
    ELSE IF \A i \in 1..3 : names[i] # <<"y">> THEN Err("KeyError")
    ELSE IF ~PyEq(Component(t, names, <<"y">>), FullResolution) THEN None
    ELSE IF \E c \in {<<"u">>, <<"v">>} : \A i \in 1..3 : names[i] # c
    THEN Err("KeyError")
    ELSE IF ~PyEq(Component(t, names, <<"u">>), Component(t, names, <<"v">>)) THEN None
    \* the letters in the order of the planes (line 374)
    ELSE S(Concat(names)
           \o Concat(YuvDigits(YuvNumbers(Component(t, names, <<"u">>)),
                               MaxNumber(YuvNumbers(Component(t, names, <<"u">>)))))
           \o <<"p">>)

_make_yuv_name(t) ==
    IF ~(Len(t[2]) > 1) THEN None
    ELSE IF \E i \in 1..Len(t[2]) : ~IsYuvComponent(t[2][i]) THEN None
    ELSE YuvNameOf(t, [i \in 1..Len(t[2]) |-> ComponentName(t[2][i])])

\* str(self): the literal text of the tuple of the planes' reprs
StrOfReprs(reprs) ==
    IF \E i \in 1..Len(reprs) : IsErr(reprs[i])
    THEN reprs[CHOOSE i \in 1..Len(reprs) : IsErr(reprs[i])]
    ELSE Lit(T(reprs))

StrOfFormat(self) == StrOfReprs([i \in 1..Len(self[2]) |-> ReprPlane(self[2][i])])

\* the registry keys whose entry equals self (lines 254-256)
RegistryMatches(self, formats) == {k \in DOMAIN formats : PyEq(formats[k], self)}

\* lines 262-268
JoinedNames(self, plane_names) ==
    IF \E i \in 1..Len(plane_names) : IsErr(plane_names[i])
    THEN plane_names[CHOOSE i \in 1..Len(plane_names) : IsErr(plane_names[i])]
    ELSE IF \A i \in 1..Len(plane_names) : ~IsNone(plane_names[i])
    THEN S(Concat([i \in 1..Len(plane_names) |-> plane_names[i][2]]) \o <<"p">>)
    ELSE StrOfFormat(self)

\* lines 258-268
NameAfterYuv(self, result) ==
    IF ~IsNone(result) THEN result
    ELSE IF Len(self[2]) = 1 THEN PlaneName(self[2][1])
    ELSE JoinedNames(self, [i \in 1..Len(self[2]) |-> PlaneName(self[2][i])])

\* lines 254-257
NameAfterRegistry(self, matches) ==
    IF matches # {} THEN S(CHOOSE k \in matches : TRUE)
    ELSE NameAfterYuv(self, _make_yuv_name(self))

\* PixelFormat.name with the registry `formats`
FormatName(self, formats) == NameAfterRegistry(self, RegistryMatches(self, formats))

\* n * x * y of a plane, as a fraction
PlaneDivisor(p) ==
    QMul(QOf(PlaneSpan(p)),
         QMul(QOf(PlaneSubsampling(p)[2][1]), QOf(PlaneSubsampling(p)[2][2])))

RECURSIVE SumPlanes(_, _)
\* the loop of lines 276-281 over the planes, from `total` on
SumPlanes(planes, total) ==
    IF planes = <<>> THEN Float(total)
    ELSE IF PlaneDivisor(planes[1])[1] = 0 THEN ZeroDivisionError
    ELSE SumPlanes(Tail(planes),
                   QAdd(total, QDiv(<<bits_per_sample(planes[1]), 1>>, PlaneDivisor(planes[1]))))

CacheValue(cache, self) == (CHOOSE e \in cache : PyEq(e[1], self))[2]
CacheHit(cache, self) == \E e \in cache : PyEq(e[1], self)

\* lines 275-284: the total, stored in the cache unless the loop raised
Computed(self, cache, total) ==
    [value |-> total, hit |-> FALSE,
     cache |-> IF IsErr(total) THEN cache ELSE cache \cup {<<self, total>>}]

\* PixelFormat.bits_per_pixel with the cache `cache`: the value (a float)
\* or the exception, whether the cache held it, and the cache afterwards
bits_per_pixel(self, cache) ==
    IF CacheHit(cache, self)
    THEN [value |-> CacheValue(cache, self), hit |-> TRUE, cache |-> cache]
    ELSE Computed(self, cache, SumPlanes(self[2], <<0, 1>>))

(***************************************************************************)
(* The descriptions the callers of the model pass to PixelFormat.          *)
(***************************************************************************)
Y8 == S(<<"y", "8">>)
Sub(x, y) == T(<<I(x), I(y)>>)
Ch(name, frags) == T(<<S(<<name>>), T(frags)>>)
Frag(start, width) == T(<<I(start), I(width)>>)

NameRgb == S(<<"r","g","b">>)
NameUyvy422 == S(<<"u","y","v","y","4","2","2">>)

\* descriptions read for their bits_per_pixel
BppDescriptions ==
    {NameRgb, NameUyvy422,
     \* "rgb888p": one plane per channel
     S(<<"r","g","b","8","8","8","p">>),
     \* one plane over two pixels, and one over three
     T(<<I(2), S(<<"y","8","u","8">>)>>),
     T(<<I(3), S(<<"r","1","g","4">>)>>),
     \* lists of planes: y, u, v with 2x2 chroma, and y with one plane of u and v
     L(<<Y8, T(<<S(<<"u","8">>), Sub(2, 2)>>), T(<<S(<<"v","8">>), Sub(2, 2)>>)>>),
     L(<<Y8, T(<<S(<<"u","8","v","8">>), Sub(2, 2)>>)>>)}

Descriptions ==
    BppDescriptions \cup
    {Y8,
     \* the registered names "gray8" and "nv12"
     S(<<"g","r","a","y","8">>),
     S(<<"n","v","1","2">>),
     \* the rgb layout in its two forms, and a layout of neither form
     S(<<"r","8","g","8","b","8">>),
     S(<<"r","g","b","8","8","8">>),
     S(<<"r","g","8">>),
     \* a YUV shorthand
     S(<<"y","u","v","4","2","0","p">>),
     \* the rgb layout as a channel map written in the order of the channels
     T(<<I(1), T(<<Ch("r", <<Frag(0, 8)>>), Ch("g", <<Frag(8, 8)>>), Ch("b", <<Frag(16, 8)>>)>>)>>)}

\* the YUV shorthands of three digits up to MaxDigit, in two spellings
YuvShorthands ==
    UNION {{S(<<"y","u","v", DigitChars[a + 1], DigitChars[b + 1], DigitChars[c + 1], "p">>),
            S(<<"Y","U","V"," ", DigitChars[a + 1], ":", DigitChars[b + 1], ":", DigitChars[c + 1]>>)} :
           <<a, b, c>> \in (0..MaxDigit) \X (0..MaxDigit) \X (0..MaxDigit)}

ChromaPlane(letter, sub) == IF sub = Sub(1, 1) THEN S(<<letter, "8">>) ELSE T(<<S(<<letter, "8">>), sub>>)

\* three 8-bit planes y, u, v in any order, chroma divisors up to MaxDigit
YuvPlaneLists ==
    {L([i \in 1..3 |-> IF order[i] = "y" THEN Y8 ELSE ChromaPlane(order[i], Sub(h, v))]) :
        <<order, h, v>> \in {o \in [1..3 -> {"y", "u", "v"}] : \A i, j \in 1..3 : i # j => o[i] # o[j]}
                            \X (1..MaxDigit) \X (1..MaxDigit)}

\* the strs of up to MaxTokenLen characters passed to _parse_layout
Tokens == UNION {[1..n -> {"r", "g", "8", "1", "!"}] : n \in 1..MaxTokenLen}

\* up to MaxPairs pairs of a channel letter and a width
PairSeqs == UNION {[1..n -> {"y", "u", "v", "n"} \X {1, 2, 10}] : n \in 1..MaxPairs}

\* the token <letter><width><letter><width>... of the pairs
InterleavedToken(pairs) == Concat([i \in 1..Len(pairs) |-> <<pairs[i][1]>> \o IntToStr(pairs[i][2])])
\* the token <letters><digits> of the pairs, when every width is one digit
HasGroupedToken(pairs) == \A i \in 1..Len(pairs) : pairs[i][2] < 10
GroupedToken(pairs) ==
    [i \in 1..Len(pairs) |-> pairs[i][1]] \o Concat([i \in 1..Len(pairs) |-> IntToStr(pairs[i][2])])

(***************************************************************************)
(* The state machine: the class-level state, the instance the caller holds *)
(* and the last call with its argument and result.                         *)
(***************************************************************************)
Start ==
    /\ named_formats = InitialNamedFormats
    /\ bpp = {}
    /\ held = None
    /\ out = None

Init == Start /\ op = "init" /\ inp = None

\* the effect of a call of PixelFormat on the registry and the result
Called(r) == named_formats' = r.formats /\ out' = r.result

\* the caller keeps the instance when the call returned one
Kept(r) == held' = IF IsErr(r.result) THEN held ELSE r.result

\* f = PixelFormat(d)
New(d) ==
    /\ Called(PixelFormat(d, named_formats))
    /\ Kept(PixelFormat(d, named_formats))
    /\ op' = "new"
    /\ inp' = d
    /\ UNCHANGED bpp

\* f.name
Name ==
    /\ ~IsNone(held)
    /\ op' = "name"
    /\ inp' = held
    /\ out' = FormatName(held, named_formats)
    /\ UNCHANGED <<named_formats, bpp, held>>

\* PixelFormat(f.name)
RoundTrip ==
    /\ op = "name"
    /\ ~IsErr(out)
    /\ Called(PixelFormat(out, named_formats))
    /\ op' = "roundtrip"
    /\ inp' = out
    /\ UNCHANGED <<bpp, held>>

\* the effect of a read of bits_per_pixel on the cache and the result
Read(r) ==
    /\ bpp' = r.cache
    /\ op' = IF r.hit THEN "bits_per_pixel hit" ELSE "bits_per_pixel miss"
    /\ out' = r.value

\* f.bits_per_pixel
BitsPerPixel ==
    /\ ~IsNone(held)
    /\ CacheHit(bpp, held) \/ Cardinality(bpp) < MaxCache
    /\ Read(bits_per_pixel(held, bpp))
    /\ inp' = held
    /\ UNCHANGED <<named_formats, held>>

Next == (\E d \in Descriptions : New(d)) \/ Name \/ RoundTrip

Spec == Init /\ [][Next]_vars

NextBpp == (\E d \in BppDescriptions : New(d)) \/ BitsPerPixel

SpecBpp == Init /\ [][NextBpp]_vars

\* the constructor and name applied to one YUV description
InitYuv == Start /\ op = "describe" /\ inp \in YuvShorthands \cup YuvPlaneLists

\* f = PixelFormat(description)
NewDescribed ==
    /\ op = "describe"
    /\ Called(PixelFormat(inp, named_formats))
    /\ Kept(PixelFormat(inp, named_formats))
    /\ op' = "new"
    /\ UNCHANGED <<bpp, inp>>

\* f.name of the instance just made
NameDescribed ==
    /\ op = "new"
    /\ ~IsNone(held)
    /\ op' = "name"
    /\ out' = FormatName(held, named_formats)
    /\ UNCHANGED <<named_formats, bpp, held, inp>>

NextYuv == NewDescribed \/ NameDescribed

SpecYuv == InitYuv /\ [][NextYuv]_vars

\* the layout parser and the constructor applied to one input
InitLayout ==
    /\ Start
    /\ \/ op = "token" /\ inp \in Tokens
       \/ op = "pairs" /\ inp \in PairSeqs

\* PixelPlaneFormat._parse_layout(token)
ParseLayout ==
    /\ op = "token"
    /\ op' = "parse_layout"
    /\ out' = _parse_layout(S(inp))
    /\ UNCHANGED <<named_formats, bpp, held, inp>>

\* PixelFormat(token + "p")
NewPlanar ==
    /\ op = "token"
    /\ Called(PixelFormat(S(inp \o <<"p">>), named_formats))
    /\ Kept(PixelFormat(S(inp \o <<"p">>), named_formats))
    /\ op' = "new_planar"
    /\ UNCHANGED <<bpp, inp>>

\* PixelFormat of the second token, with the registry the first call left
Second(interleaved, grouped, r1) ==
    /\ out' = <<_parse_layout(interleaved), _parse_layout(grouped), r1.result,
                PixelFormat(grouped, r1.formats).result>>
    /\ named_formats' = PixelFormat(grouped, r1.formats).formats

First(interleaved, r1) ==
    /\ out' = <<_parse_layout(interleaved), None, r1.result, None>>
    /\ named_formats' = r1.formats

\* the layout of the pairs parsed from its interleaved and its grouped token,
\* and PixelFormat of the two tokens
ParsePairs ==
    /\ op = "pairs"
    /\ IF HasGroupedToken(inp)
       THEN Second(S(InterleavedToken(inp)), S(GroupedToken(inp)),
                   PixelFormat(S(InterleavedToken(inp)), named_formats))
       ELSE First(S(InterleavedToken(inp)),
                  PixelFormat(S(InterleavedToken(inp)), named_formats))
    /\ op' = "parse_pairs"
    /\ UNCHANGED <<bpp, held, inp>>

\* the channel map of the pairs written out in the order the channels occur
PairChannels(pairs) == [i \in 1..Len(pairs) |-> <<pairs[i][1], IntToStr(pairs[i][2])>>]

StructuredLayout(pairs) ==
    ItemsInOrder(PairChannels(pairs), FirstOccurrences(PairChannels(pairs), {}))

\* the plane of the layout string, and the plane of the same channel map
\* passed in already structured
ComparePlanes ==
    /\ op = "pairs"
    /\ op' = "compare_planes"
    /\ out' = <<from_description(S(InterleavedToken(inp))),
                from_description(T(<<I(1), StructuredLayout(inp), FullResolution>>))>>
    /\ UNCHANGED <<named_formats, bpp, held, inp>>

NextLayout == ParseLayout \/ NewPlanar \/ ParsePairs \/ ComparePlanes

SpecLayout == InitLayout /\ [][NextLayout]_vars

(***************************************************************************)
(* Round trip of names (C1) and the registry in name (C2).                 *)
(***************************************************************************)
\* C1: the name of every constructed format is a string, and PixelFormat of
\* that name equals the format.
C1_RoundTrip ==
    /\ op = "name" => IsStr(out)
    /\ op = "roundtrip" => PyEq(out, held)

\* the plane sequence the description of the registry key k normalizes to
NormalizedEntry(k) == _parse_description(InitialNamedFormats[k])

\* C2: in every reachable state, a format whose planes are those the
\* description of a registry key k normalizes to has the name k.
C2_RegistryFirst ==
    op = "name" =>
        \A k \in DOMAIN InitialNamedFormats :
            (~IsErr(NormalizedEntry(k)) /\ PyEq(NormalizedEntry(k), held)) => out = S(k)

(***************************************************************************)
(* bits_per_pixel (C3)                                                     *)
(***************************************************************************)
\* the widths of all fragments of all channels of a plane
PlaneWidths(p) ==
    Concat([i \in 1..Len(PlaneChannels(p)[2]) |->
        [j \in 1..Len(ChPos(PlaneChannels(p)[2][i])[2]) |->
            FragWidth(ChPos(PlaneChannels(p)[2][i])[2][j])]])

RECURSIVE SumSeq(_)
SumSeq(ns) == IF ns = <<>> THEN 0 ELSE ns[1] + SumSeq(Tail(ns))

\* span * x_divisor * y_divisor of a plane whose divisors are ints
IntDivisor(p) == PlaneSpan(p)[2] * PlaneSubsampling(p)[2][1][2] * PlaneSubsampling(p)[2][2][2]

RECURSIVE FormulaSum(_)
\* the sum over the planes of bits / divisor, as numerator and denominator
FormulaSum(planes) ==
    IF planes = <<>> THEN <<0, 1>>
    ELSE <<SumSeq(PlaneWidths(planes[1])) * FormulaSum(Tail(planes))[2]
              + FormulaSum(Tail(planes))[1] * IntDivisor(planes[1]),
           IntDivisor(planes[1]) * FormulaSum(Tail(planes))[2]>>

MatchesFormula(value, f) ==
    /\ Tag(value) = "float"
    /\ value[2] * FormulaSum(f[2])[2] = FormulaSum(f[2])[1] * value[3]

\* C3: every entry of the cache, and the value of every read of
\* bits_per_pixel, hit or miss, is the sum over the planes of the format of the
\* sum of all fragment widths divided by span * x_divisor * y_divisor.
C3_BitsPerPixel ==
    /\ \A e \in bpp : MatchesFormula(e[2], e[1])
    /\ op \in {"bits_per_pixel hit", "bits_per_pixel miss"} => MatchesFormula(out, inp)

\* a hit on a fractional value while the cache holds another format too
C3_HitWitness ==
    /\ op = "bits_per_pixel hit"
    /\ Cardinality(bpp) >= 2
    /\ out = <<"float", 5, 3>>

(***************************************************************************)
(* Equality of planes (C4)                                                 *)
(***************************************************************************)
\* the same span, subsampling and name -> fragments entries, in any order
SameMapping(a, b) ==
    /\ PlaneSpan(a) = PlaneSpan(b)
    /\ PlaneSubsampling(a) = PlaneSubsampling(b)
    /\ {PlaneChannels(a)[2][i] : i \in 1..Len(PlaneChannels(a)[2])}
         = {PlaneChannels(b)[2][i] : i \in 1..Len(PlaneChannels(b)[2])}

\* C4: the plane parsed from a layout string and the plane given the same
\* channel map already structured, its entries in another order, are equal.
C4_MappingEquality ==
    op = "compare_planes" =>
        ((IsPlane(out[1]) /\ IsPlane(out[2]) /\ SameMapping(out[1], out[2]))
            => PyEq(out[1], out[2]))

(***************************************************************************)
(* YUV shorthands (C5) and YUV names (C6)                                  *)
(***************************************************************************)
DigitsOf(chars) ==
    [i \in 1..Len(SelectSeq(chars, IsDigit)) |-> DigitVal(SelectSeq(chars, IsDigit)[i])]

\* y8 at full resolution, u8 and v8 at (d1/d2, 2 or 1)
ExpectedYuv(d) ==
    Format(<<Plane(I(1), T(<<Ch("y", <<Frag(0, 8)>>)>>), Sub(1, 1)),
             Plane(I(1), T(<<Ch("u", <<Frag(0, 8)>>)>>),
                   T(<<NumberOf(<<d[1], d[2]>>), I(IF d[3] = 0 THEN 2 ELSE 1)>>)),
             Plane(I(1), T(<<Ch("v", <<Frag(0, 8)>>)>>),
                   T(<<NumberOf(<<d[1], d[2]>>), I(IF d[3] = 0 THEN 2 ELSE 1)>>))>>)

\* C5: a YUV shorthand of digits d1, d2, d3 parses to y8, u8, v8 with chroma
\* subsampling (d1/d2, 2 if d3 = 0, 1 if d3 = d2), and fails for every other
\* triple of digits.
C5_YuvShorthand ==
    (op = "new" /\ inp \in YuvShorthands /\ DigitsOf(inp[2])[2] # 0) =>
        IF DigitsOf(inp[2])[3] = 0 \/ DigitsOf(inp[2])[3] = DigitsOf(inp[2])[2]
        THEN PyEq(out, ExpectedYuv(DigitsOf(inp[2])))
        ELSE IsErr(out)

\* the subsampling of the plane of f that holds the channel `letter`
SubsamplingOf(f, letter) ==
    PlaneSubsampling(f[2][CHOOSE i \in 1..Len(f[2]) :
        ChName(PlaneChannels(f[2][i])[2][1]) = <<letter>>])

\* "yuv", then hsub, 1 and 1 or 0, all times 4/max when max is below 4, then "p"
ClaimedYuvName(hsub, vsub) ==
    <<"y", "u", "v">>
    \o (IF hsub < 4
        THEN IntToStr((hsub * 4) \div hsub) \o IntToStr(4 \div hsub)
             \o IntToStr(IF vsub = 1 THEN 4 \div hsub ELSE 0)
        ELSE IntToStr(hsub) \o <<"1">> \o (IF vsub = 1 THEN <<"1">> ELSE <<"0">>))
    \o <<"p">>

\* C6: three 8-bit planes y, u, v in any order, y at full resolution and u, v
\* at (hsub, vsub), are named "yuv" + the three numbers + "p".
C6_YuvName ==
    (op = "name" /\ inp \in YuvPlaneLists) =>
        out = S(ClaimedYuvName(SubsamplingOf(held, "u")[2][1][2],
                               SubsamplingOf(held, "u")[2][2][2]))

(***************************************************************************)
(* Planar explosion (C7)                                                   *)
(***************************************************************************)
\* every fragment of a plane as <<name, start, width>>
AllFragments(p) ==
    UNION {{<<ChName(PlaneChannels(p)[2][i]),
              FragStart(ChPos(PlaneChannels(p)[2][i])[2][j]),
              FragWidth(ChPos(PlaneChannels(p)[2][i])[2][j])>> :
                j \in 1..Len(ChPos(PlaneChannels(p)[2][i])[2])} :
           i \in 1..Len(PlaneChannels(p)[2])}

\* the planes are the fragments of p in ascending offset, each alone at offset 0
ExplodedFrom(planes, p) ==
    /\ Len(planes) = Cardinality(AllFragments(p))
    /\ \A i \in 1..Len(planes) :
        \E f \in AllFragments(p) :
            /\ Cardinality({g \in AllFragments(p) : g[2] < f[2]}) = i - 1
            /\ planes[i] = Plane(PlaneSpan(p), T(<<T(<<S(f[1]), T(<<Frag(0, f[3])>>)>>)>>),
                                 PlaneSubsampling(p))

IsInterleaved(s) ==
    /\ Len(s) >= 2
    /\ IsLetter(s[1])
    /\ IsDigit(s[Len(s)])
    /\ \A i \in 1..Len(s) :
        /\ IsLetter(s[i]) \/ IsDigit(s[i])
        /\ IsLetter(s[i]) => (i < Len(s) /\ IsDigit(s[i + 1]))

\* the whole token is n letters and then n digits
IsGrouped(s) ==
    /\ Len(s) >= 2
    /\ Len(s) % 2 = 0
    /\ \A i \in 1..Len(s) : IF 2 * i <= Len(s) THEN IsLetter(s[i]) ELSE IsDigit(s[i])

\* C8: _parse_layout of a string that is in its entirety neither form raises
\* MalformedPlaneFormat.
C8_RejectsMalformed ==
    (op = "parse_layout" /\ ~IsInterleaved(inp) /\ ~IsGrouped(inp)) =>
        out = MalformedPlaneFormat

RECURSIVE OffsetOf(_, _)
\* the sum of the widths of the pairs before the i-th
OffsetOf(pairs, i) == IF i = 1 THEN 0 ELSE OffsetOf(pairs, i - 1) + pairs[i - 1][2]

\* the indices of the pairs of the letter c, ascending
RECURSIVE Occurrences(_, _, _)
Occurrences(pairs, c, i) ==
    IF i > Len(pairs) THEN <<>>
    ELSE (IF pairs[i][1] = c THEN <<i>> ELSE <<>>) \o Occurrences(pairs, c, i + 1)

ExpectedFragments(pairs, c) ==
    [k \in 1..Len(Occurrences(pairs, c, 1)) |->
        Frag(OffsetOf(pairs, Occurrences(pairs, c, 1)[k]), pairs[Occurrences(pairs, c, 1)[k]][2])]

\* one entry per letter, holding a fragment per occurrence of the letter
IsLayoutOf(layout, pairs) ==
    /\ IsTuple(layout)
    /\ Len(layout[2]) = Cardinality({pairs[i][1] : i \in 1..Len(pairs)})
    /\ \A i \in 1..Len(pairs) :
        \E e \in 1..Len(layout[2]) :
            layout[2][e] = T(<<S(<<pairs[i][1]>>), T(ExpectedFragments(pairs, pairs[i][1]))>>)

\* the token is one PixelFormat reads as a registered name or a YUV shorthand
IsNameOrShorthand(token) ==
    \/ token \in DOMAIN InitialNamedFormats
    \/ /\ Len(token) >= 6
       /\ SubSeq(token, 1, 3) = <<"y", "u", "v">>
       /\ \A i \in 4..6 : IsDigit(token[i])

\* C9 as stated: the fragments follow a running offset, a letter owns a
\* fragment per occurrence, the grouped and the interleaved token give the
\* same channel map, and the PixelFormats of the two tokens are equal.
C9_AsStated ==
    op = "parse_pairs" =>
        /\ IsLayoutOf(out[1], inp)
        /\ HasGroupedToken(inp) =>
            /\ out[2] = out[1]
            /\ IsFormat(out[3]) /\ PyEq(out[3], out[4])

\* C9, amended: as stated, the equality of the PixelFormats only for a grouped
\* token that is neither a registered name nor a YUV shorthand.
C9_Amended ==
    op = "parse_pairs" =>
        /\ IsLayoutOf(out[1], inp)
        /\ HasGroupedToken(inp) =>
            /\ out[2] = out[1]
            /\ ~IsNameOrShorthand(GroupedToken(inp)) =>
                (IsFormat(out[3]) /\ PyEq(out[3], out[4]))

\* a letter that occurs twice, in both tokens
C9_RepeatedLetterWitness ==
    /\ op = "parse_pairs"
    /\ inp = <<<<"y", 1>>, <<"u", 2>>, <<"y", 1>>>>
    /\ IsFormat(out[4])

(***************************************************************************)
(* The registry over time (C10)                                            *)
(***************************************************************************)
\* C10: the keys of the registry never change; an entry changes only from its
\* initial description, and only in a successful PixelFormat(k) of its own
\* key k; and every successful PixelFormat(k) returns the stored entry.
C10_RegistryEvolution ==
    /\ [](DOMAIN named_formats = DOMAIN InitialNamedFormats)
    /\ [](\A k \in DOMAIN InitialNamedFormats :
            (op \in {"new", "roundtrip"} /\ inp = S(k) /\ ~IsErr(out))
                => named_formats[k] = T(out[2]))
    /\ [][\A k \in DOMAIN InitialNamedFormats :
            named_formats'[k] # named_formats[k] =>
                /\ named_formats[k] = InitialNamedFormats[k]
                /\ op' \in {"new", "roundtrip"}
                /\ inp' = S(k)
                /\ ~IsErr(out')]_vars

\* rgb parsed a second time, after uyvy422 was normalized too
C10_SecondParseWitness ==
    /\ op = "roundtrip"
    /\ inp = NameRgb
    /\ named_formats[NameRgb[2]] = T(out[2])
    /\ named_formats[NameUyvy422[2]] # InitialNamedFormats[NameUyvy422[2]]

(***************************************************************************)
(* PixelPlaneFormat.name (C11)                                             *)
(***************************************************************************)
\* p = PixelPlaneFormat.from_description(description); p.name
PlaneNameOf ==
    \/ /\ op = "plane"
       /\ op' = "from_description"
       /\ out' = from_description(inp)
       /\ held' = from_description(inp)
       /\ UNCHANGED <<named_formats, bpp, inp>>
    \/ /\ op = "from_description"
       /\ IsPlane(held)
       /\ op' = "plane_name"
       /\ out' = PlaneName(held)
       /\ UNCHANGED <<named_formats, bpp, held, inp>>

\* one structured plane description (n, channels, subsampling) of up to
\* MaxChannels channels "a", "b" with up to MaxFragments fragments each
InitPlane ==
    /\ Start
    /\ op = "plane"
    /\ inp \in {T(<<I(n), T(layout), sub>>) :
                 n \in {1, 2},
                 sub \in {Sub(1, 1), Sub(2, 1)},
                 layout \in UNION {[1..k ->
                     {Ch(name, frags) :
                         name \in {"a", "b"},
                         frags \in UNION {[1..m -> {Frag(st, w) : st \in 0..1, w \in 1..2}] :
                                          m \in 0..MaxFragments}}] :
                     k \in 0..MaxChannels}}

SpecPlane == InitPlane /\ [][PlaneNameOf]_vars

\* the channels of idxs follow one another from `offset` on without a gap
RECURSIVE Contiguous(_, _, _)
Contiguous(channels, idxs, offset) ==
    \/ idxs = {}
    \/ \E i \in idxs :
        /\ FragStart(ChPos(channels[i])[2][1]) = offset
        /\ Contiguous(channels, idxs \ {i}, offset + FragWidth(ChPos(channels[i])[2][1]))

RECURSIVE NameFrom(_, _, _)
\* <letter><width> of the channels of idxs in ascending offset
NameFrom(channels, idxs, offset) ==
    IF idxs = {} THEN <<>>
    ELSE LET i == CHOOSE j \in idxs : FragStart(ChPos(channels[j])[2][1]) = offset
         IN ChName(channels[i]) \o IntToStr(FragWidth(ChPos(channels[i])[2][1]))
            \o NameFrom(channels, idxs \ {i}, offset + FragWidth(ChPos(channels[i])[2][1]))

\* span 1, full resolution, at least one channel, one fragment per channel,
\* the fragments contiguous from offset 0
HasName(p) ==
    /\ PlaneSpan(p) = I(1)
    /\ PlaneSubsampling(p) = FullResolution
    /\ Len(PlaneChannels(p)[2]) >= 1
    /\ \A i \in 1..Len(PlaneChannels(p)[2]) : Len(ChPos(PlaneChannels(p)[2][i])[2]) = 1
    /\ Contiguous(PlaneChannels(p)[2], 1..Len(PlaneChannels(p)[2]), 0)

\* C11: the name of a plane is the concatenation of <letter><width> in
\* ascending offset exactly when the span is 1, the subsampling (1,1), there is
\* a channel, every channel has one fragment and the fragments are contiguous
\* from 0; in every other case name returns None and raises nothing.
C11_PlaneName ==
    op = "plane_name" =>
        IF HasName(held)
        THEN out = S(NameFrom(PlaneChannels(held)[2], 1..Len(PlaneChannels(held)[2]), 0))
        ELSE out = None

\* C11 without its last words: as above, for planes none of whose channels is
\* without a fragment
C11_WithFragments ==
    (op = "plane_name"
        /\ \A i \in 1..Len(PlaneChannels(held)[2]) : Len(ChPos(PlaneChannels(held)[2][i])[2]) >= 1)
    => IF HasName(held)
       THEN out = S(NameFrom(PlaneChannels(held)[2], 1..Len(PlaneChannels(held)[2]), 0))
       ELSE out = None

====
